---------------------------- MODULE Spec2Model ----------------------------
(***************************************************************************)
(* A model of script_exporter's probe pipeline (cmd/script_exporter):      *)
(* the authentication gate (auth, checkJWT), the per-script                *)
(* instrumentation wrapper (instrumentScript), the probe handler           *)
(* (metricsHandler, runScript) and the line transformer that the handler   *)
(* applies to the script's output.                                         *)
(*                                                                         *)
(* Text is modelled as sequences of one-character strings wherever the     *)
(* code inspects characters (script output, the prefix, regular            *)
(* expressions).  The fixed help/type lines and the Authorization header   *)
(* are sequences of longer tokens, because the code only ever splits them  *)
(* at token boundaries.                                                    *)
(***************************************************************************)
EXTENDS Integers, Sequences, FiniteSets, TLC

(***************************************************************************)
(* Bounds of the model.                                                    *)
(***************************************************************************)
\* number of concurrent /probe requests
NumReqs == 2
\* a script prints at most this many lines
MaxLines == 2

Reqs == 1..NumReqs

(***************************************************************************)
(* Characters and the character classes of Go's regexp syntax.             *)
(***************************************************************************)
Digits ==
    {"0", "1", "2", "3", "4", "5", "6", "7", "8", "9"}

Letters ==
    {"a", "b", "c", "d", "e", "f", "g", "h", "i", "j", "k", "l", "m",
     "n", "o", "p", "q", "r", "s", "t", "u", "v", "w", "x", "y", "z",
     "A", "B", "C", "D", "E", "F", "G", "H", "I", "J", "K", "L", "M",
     "N", "O", "P", "Q", "R", "S", "T", "U", "V", "W", "X", "Y", "Z"}

\* \w
WordChars == Digits \cup Letters \cup {"_"}

\* \s
SpaceChars == {"\t", "\n", "\f", "\r", " "}

\* [0-9|\.]  (inside a class the bar is a literal character)
NumClassChars == Digits \cup {"|", "."}

SetMax(S) == CHOOSE x \in S : \A y \in S : y <= x

(***************************************************************************)
(* regexp.Compile, for the patterns the handler builds: "^", then the      *)
(* characters of the prefix, then a fixed tail.  A pattern is a sequence   *)
(* of tokens; the tokens of the tail are written as the handler writes     *)
(* them.  The result is [ok, prog]: ok = FALSE is Compile's error, which   *)
(* the handler discards, keeping the nil *Regexp.                          *)
(***************************************************************************)
Atom(tok) ==
    CASE tok = "^" -> [kind |-> "bol", ch |-> "", q |-> "1"]
      [] tok = "." -> [kind |-> "any", ch |-> "", q |-> "1"]
      [] tok = "\\w" -> [kind |-> "word", ch |-> "", q |-> "1"]
      [] tok = "\\s" -> [kind |-> "space", ch |-> "", q |-> "1"]
      [] tok = "[0-9|\\.]" -> [kind |-> "num", ch |-> "", q |-> "1"]
      [] OTHER -> [kind |-> "lit", ch |-> tok, q |-> "1"]

RECURSIVE ParseRegexp(_, _, _, _)
ParseRegexp(pat, i, prog, lastRepeat) ==
    IF i > Len(pat) THEN [ok |-> TRUE, prog |-> prog]
    ELSE LET tok == pat[i] IN
         CASE tok \in {"*", "+"} ->
                \* a stacked repetition (a**, a+*) and a repetition with
                \* nothing before it are syntax errors
                IF lastRepeat \/ prog = << >>
                THEN [ok |-> FALSE, prog |-> << >>]
                ELSE ParseRegexp(pat, i + 1,
                        [prog EXCEPT ![Len(prog)].q = tok], TRUE)
           [] tok \in {"(", ")"} ->
                \* the tail holds no parenthesis, so one in the prefix is
                \* never balanced
                [ok |-> FALSE, prog |-> << >>]
           [] OTHER ->
                ParseRegexp(pat, i + 1, Append(prog, Atom(tok)), FALSE)

Compile(pat) == ParseRegexp(pat, 1, << >>, FALSE)

Accepts(e, c) ==
    CASE e.kind = "lit" -> c = e.ch
      [] e.kind = "any" -> c # "\n"
      [] e.kind = "word" -> c \in WordChars
      [] e.kind = "space" -> c \in SpaceChars
      [] e.kind = "num" -> c \in NumClassChars
      [] OTHER -> FALSE

\* the positions where element e can end when it starts at position p of s
RunOf(e, p, s) ==
    CASE e.kind = "bol" -> IF p = 0 \/ e.q = "*" THEN {p} ELSE {}
      [] e.q = "1" ->
            IF p < Len(s) /\ Accepts(e, s[p + 1]) THEN {p + 1} ELSE {}
      [] OTHER ->
            {k \in (IF e.q = "+" THEN p + 1 ELSE p)..Len(s) :
                \A j \in (p + 1)..k : Accepts(e, s[j])}

RECURSIVE Advance(_, _, _, _)
Advance(prog, i, P, s) ==
    IF i > Len(prog) THEN P
    ELSE Advance(prog, i + 1, UNION {RunOf(prog[i], p, s) : p \in P}, s)

\* the end positions of the matches of prog that start at the beginning of s
MatchEnds(prog, s) == Advance(prog, 1, {0}, s)

\* (*Regexp).FindAllString(s, -1).  Every pattern starts with "^", so there
\* is at most one match; every repetition is greedy and ranges over single
\* characters, so the match the engine prefers is the longest one.
FindAllString(re, s) ==
    LET ends == MatchEnds(re.prog, s) IN
    IF ends = {} THEN << >> ELSE << SubSeq(s, 1, SetMax(ends)) >>

\* (*Regexp).MatchString(s): an unanchored search, anchored by the "^"
MatchString(re, s) == MatchEnds(re.prog, s) # {}

(***************************************************************************)
(* strings and bufio helpers                                               *)
(***************************************************************************)
RECURSIVE TrimLeft(_)
TrimLeft(s) ==
    IF s # << >> /\ Head(s) = " " THEN TrimLeft(Tail(s)) ELSE s

RECURSIVE TrimRight(_)
TrimRight(s) ==
    IF s # << >> /\ s[Len(s)] = " "
    THEN TrimRight(SubSeq(s, 1, Len(s) - 1)) ELSE s

\* strings.Trim(s, " ")
Trim(s) == TrimRight(TrimLeft(s))

\* strings.Replace(s, ",", ".", -1)
ReplaceCommas(s) == [i \in 1..Len(s) |-> IF s[i] = "," THEN "." ELSE s[i]]

\* bufio.ScanLines drops one trailing carriage return of a line
DropCR(s) ==
    IF s # << >> /\ s[Len(s)] = "\r" THEN SubSeq(s, 1, Len(s) - 1) ELSE s

\* bufio.Scanner with the default split function: the lines of the text,
\* without their terminators; a final line needs no terminator, and an
\* empty remainder after the last terminator is no line
RECURSIVE ScanLines(_, _)
ScanLines(text, cur) ==
    IF text = << >> THEN (IF cur = << >> THEN << >> ELSE << DropCR(cur) >>)
    ELSE IF Head(text) = "\n"
         THEN << DropCR(cur) >> \o ScanLines(Tail(text), << >>)
         ELSE ScanLines(Tail(text), Append(cur, Head(text)))

(***************************************************************************)
(* The fixed lines of a probe response (the const block) and the two       *)
(* synthetic samples.  A line is a sequence of tokens.                     *)
(***************************************************************************)
namespace == "script"

scriptSuccessHelp ==
    << "# HELP script_success Script exit status (0 = error, 1 = success)." >>

scriptSuccessType == << "# TYPE script_success gauge" >>

scriptDurationSecondsHelp ==
    << "# HELP script_duration_seconds Script execution time, in seconds." >>

scriptDurationSecondsType == << "# TYPE script_duration_seconds gauge" >>

DigitStr == << "0", "1", "2", "3", "4", "5", "6", "7", "8", "9" >>

\* fmt's %d
RECURSIVE FmtInt(_)
FmtInt(n) ==
    IF n < 10 THEN << DigitStr[n + 1] >>
    ELSE FmtInt(n \div 10) \o << DigitStr[(n % 10) + 1] >>

\* fmt's %f of a whole number of seconds
FmtFloat(n) == FmtInt(n) \o << ".", "000000" >>

\* the six lines written by each of the three Fprintf calls of the handler
SyntheticLines(success, elapsed) ==
    << scriptSuccessHelp,
       scriptSuccessType,
       << namespace, "_success{} " >> \o FmtInt(success),
       scriptDurationSecondsHelp,
       scriptDurationSecondsType,
       << namespace, "_duration_seconds{} " >> \o FmtFloat(elapsed) >>

(***************************************************************************)
(* The "Format output" part of metricsHandler.                             *)
(***************************************************************************)
\* prefix = fmt.Sprintf("%s_", prefix) when the parameter is not empty
EffectivePrefix(p) == IF p # << >> THEN p \o << "_" >> ELSE p

Regex1Pattern(prefix) ==
    << "^" >> \o prefix \o << "\\w", "*", "{", ".", "*", "}", "\\s", "+" >>

Regex2Pattern(prefix) ==
    << "^" >> \o prefix
        \o << "\\w", "*", "{", ".", "*", "}", "\\s", "+", "[0-9|\\.]", "*" >>

\* One iteration of the scanner loop: [panic, out], out holding the line
\* appended to formatedOutput, if any.  A nil regex1 (Compile failed) makes
\* FindAllString dereference nil.
FormatLine(regex1, regex2, prefix, text) ==
    LET metric == Trim(text) IN
    IF metric = << >> THEN [panic |-> FALSE, out |-> << >>]
    ELSE IF metric[1] = "#" THEN [panic |-> FALSE, out |-> << metric >>]
    ELSE IF ~regex1.ok THEN [panic |-> TRUE, out |-> << >>]
    ELSE LET prefixed == prefix \o metric
             metrics == FindAllString(regex1, prefixed)
         IN  IF Len(metrics) = 1
             THEN LET value == ReplaceCommas(
                          SubSeq(prefixed, Len(metrics[1]) + 1, Len(prefixed)))
                  IN  IF MatchString(regex2, metrics[1] \o value)
                      THEN [panic |-> FALSE, out |-> << metrics[1] \o value >>]
                      ELSE [panic |-> FALSE, out |-> << >>]
             ELSE [panic |-> FALSE, out |-> << >>]

\* the scanner loop putting each line before those already formatted
RECURSIVE FormatLines_Prepend(_, _, _, _)
FormatLines_Prepend(regex1, regex2, prefix, lines) ==
    IF lines = << >> THEN [panic |-> FALSE, out |-> << >>]
    ELSE LET first == FormatLine(regex1, regex2, prefix, Head(lines)) IN
         IF first.panic THEN first
         ELSE LET rest == FormatLines_Prepend(regex1, regex2, prefix,
                                              Tail(lines))
              IN  [panic |-> rest.panic, out |-> rest.out \o first.out]

\* the scanner loop, lines 228-246
RECURSIVE FormatLines(_, _, _, _)
FormatLines(regex1, regex2, prefix, lines) ==
    IF lines = << >> THEN [panic |-> FALSE, out |-> << >>]
    ELSE LET first == FormatLine(regex1, regex2, prefix, Head(lines)) IN
         IF first.panic THEN first
         ELSE LET rest == FormatLines(regex1, regex2, prefix, Tail(lines)) IN
              [panic |-> rest.panic, out |-> first.out \o rest.out]

\* formatedOutput for a request prefix (already with its "_") and the
\* captured standard output
FormatedOutput(prefix, output) ==
    FormatLines(Compile(Regex1Pattern(prefix)), Compile(Regex2Pattern(prefix)),
                prefix, ScanLines(output, << >>))


(***************************************************************************)
(* The response writer.  status 0: nothing has been written yet.  A body   *)
(* is the sequence of its lines; headers is a set of <<name, value>>.      *)
(***************************************************************************)
StatusOK == 200
StatusBadRequest == 400
StatusUnauthorized == 401

NewResponse == [status |-> 0, headers |-> {}, body |-> << >>]

\* w.Header().Set(name, value)
SetHeader(w, name, value) ==
    [w EXCEPT !.headers =
        {h \in w.headers : h[1] # name} \cup {<< name, value >>}]

\* http.Error(w, msg, code)
HttpError(w, msg, code) ==
    LET w1 == SetHeader(w, "Content-Type", "text/plain; charset=utf-8")
        w2 == SetHeader(w1, "X-Content-Type-Options", "nosniff")
    IN  [w2 EXCEPT !.status = code, !.body = w.body \o << << msg >> >>]

\* fmt.Fprintf(w, ...) of whole lines: the first write sends status 200
WriteLines(w, lines) ==
    [w EXCEPT !.status = IF w.status = 0 THEN StatusOK ELSE w.status,
              !.body = w.body \o lines]

(***************************************************************************)
(* The Authorization header.  A value is a sequence of tokens: scheme      *)
(* words, single spaces and credential strings.  A request carries a list  *)
(* of values; Header.Get returns the first, or "" (the empty sequence).    *)
(***************************************************************************)
HeaderGet(values) == IF values = << >> THEN << >> ELSE values[1]

\* strings.ToLower / ASCII case folding, on the scheme words
ToLower(tok) ==
    CASE tok \in {"Basic", "BASIC", "basic"} -> "basic"
      [] tok \in {"Bearer", "BEARER", "bearer"} -> "bearer"
      [] OTHER -> tok

\* base64.StdEncoding.DecodeString on the credential strings of the model
Base64Decode(tok) ==
    CASE tok = "YWRtaW46c2VjcmV0" ->
            [ok |-> TRUE, text |-> << "admin", ":", "secret" >>]
      [] tok = "YWRtaW46d3Jvbmc=" ->
            [ok |-> TRUE, text |-> << "admin", ":", "wrong" >>]
      [] tok = "cm9vdDpzZWNyZXQ=" ->
            [ok |-> TRUE, text |-> << "root", ":", "secret" >>]
      [] tok = "YWRtaW4=" ->
            [ok |-> TRUE, text |-> << "admin" >>]
      [] OTHER -> [ok |-> FALSE, text |-> << >>]

\* strings.Cut(s, ":"): the index of the first colon, 0 when there is none
ColonIndex(s) ==
    IF \E i \in 1..Len(s) : s[i] = ":"
    THEN CHOOSE i \in 1..Len(s) : s[i] = ":" /\ \A j \in 1..(i - 1) : s[j] # ":"
    ELSE 0

\* (*http.Request).BasicAuth: the first Authorization value must start with
\* "Basic " in any letter case, the rest must be base64 of username:password
BasicAuth(rq) ==
    LET auth == HeaderGet(rq.authorization)
        none == [ok |-> FALSE, username |-> << >>, password |-> << >>]
    IN  IF Len(auth) < 2 \/ ToLower(auth[1]) # "basic" \/ auth[2] # " "
        THEN none
        ELSE LET rest == SubSeq(auth, 3, Len(auth))
                 dec == IF Len(rest) = 1 THEN Base64Decode(rest[1])
                        ELSE [ok |-> rest = << >>, text |-> << >>]
                 i == ColonIndex(dec.text)
             IN  IF ~dec.ok \/ i = 0 THEN none
                 ELSE [ok |-> TRUE,
                       username |-> SubSeq(dec.text, 1, i - 1),
                       password |-> SubSeq(dec.text, i + 1, Len(dec.text))]

\* strings.Split(s, " ")
RECURSIVE SplitSpaces(_, _)
SplitSpaces(s, cur) ==
    IF s = << >> THEN << cur >>
    ELSE IF Head(s) = " " THEN << cur >> \o SplitSpaces(Tail(s), << >>)
         ELSE SplitSpaces(Tail(s), Append(cur, Head(s)))

(***************************************************************************)
(* Signed tokens (github.com/dgrijalva/jwt-go).  jwt.Parse on the token    *)
(* strings of the model: the algorithm named in the header, the key the    *)
(* signature was made with, and whether the claims are valid (not expired).*)
(* A secret is a sequence of bytes, "keyA" and "keyB" standing for runs of *)
(* bytes that are not zero and "\\0" for a zero byte.                    *)
(***************************************************************************)
HMACMethods == {"HS256", "HS384", "HS512"}

\* crypto/hmac: the key an HMAC is computed with is the secret padded with
\* zero bytes to the block size of the hash, so that zero bytes at the end
\* of a secret up to that size do not change it (the secrets of the model
\* are shorter than a block)
RECURSIVE HMACKey(_)
HMACKey(secret) ==
    IF secret # << >> /\ secret[Len(secret)] = "\\0"
    THEN HMACKey(SubSeq(secret, 1, Len(secret) - 1))
    ELSE secret

RegisteredMethods == HMACMethods \cup {"RS256", "none"}

TokenFields(tok) ==
    CASE tok = "jwt.HS256.keyA" ->
            [ok |-> TRUE, alg |-> "HS256", key |-> << "keyA" >>, claimsValid |-> TRUE]
      [] tok = "jwt.HS256.keyB" ->
            [ok |-> TRUE, alg |-> "HS256", key |-> << "keyB" >>, claimsValid |-> TRUE]
      [] tok = "jwt.HS512.keyA" ->
            [ok |-> TRUE, alg |-> "HS512", key |-> << "keyA" >>, claimsValid |-> TRUE]
      [] tok = "jwt.HS256.keyA.expired" ->
            [ok |-> TRUE, alg |-> "HS256", key |-> << "keyA" >>, claimsValid |-> FALSE]
      [] tok = "jwt.RS256.keyA" ->
            [ok |-> TRUE, alg |-> "RS256", key |-> << "keyA" >>, claimsValid |-> TRUE]
      [] tok = "jwt.none" ->
            [ok |-> TRUE, alg |-> "none", key |-> << >>, claimsValid |-> TRUE]
      [] OTHER ->
            [ok |-> FALSE, alg |-> "", key |-> << >>, claimsValid |-> FALSE]

\* token.SignedString(key) of a token with no claims
SignedString(alg, secret) ==
    CASE alg = "HS256" /\ HMACKey(secret) = << "keyA" >> -> "jwt.HS256.keyA"
      [] alg = "HS256" /\ HMACKey(secret) = << "keyB" >> -> "jwt.HS256.keyB"
      [] alg = "HS512" /\ HMACKey(secret) = << "keyA" >> -> "jwt.HS512.keyA"
      [] OTHER -> "garbage"

\* createJWT()
createJWT(cfg) == SignedString("HS256", cfg.BearerAuth.SigningKey)

\* checkJWT without the verification of the signature
checkJWT_AnyKey(cfg, jwtToken) ==
    LET token == IF Len(jwtToken) = 1 THEN TokenFields(jwtToken[1])
                 ELSE TokenFields("")
    IN  /\ token.ok
        /\ token.alg \in RegisteredMethods
        /\ token.alg \in HMACMethods
        /\ token.claimsValid

\* checkJWT(jwtToken) = nil.  The key function refuses every method that is
\* not HMAC; Parse then verifies the signature with the configured key and
\* validates the claims.
checkJWT(cfg, jwtToken) ==
    LET token == IF Len(jwtToken) = 1 THEN TokenFields(jwtToken[1])
                 ELSE TokenFields("")
    IN  /\ token.ok
        /\ token.alg \in RegisteredMethods
        /\ token.alg \in HMACMethods
        /\ token.key = HMACKey(cfg.BearerAuth.SigningKey)
        /\ token.claimsValid

(***************************************************************************)
(* auth: the authentication gate around the probe handler.                 *)
(***************************************************************************)
\* lines 26-35: credentials present and equal to the configured pair
BasicCheck(cfg, rq) ==
    LET cred == BasicAuth(rq) IN
    /\ cred.ok
    /\ ~(cred.username # cfg.BasicAuth.Username
            \/ cred.password # cfg.BasicAuth.Password)

\* the Bearer check looking through every Authorization value of the request
\* (r.Header.Values) instead of the first
BearerCheck_AnyValue(cfg, rq) ==
    \E n \in 1..Len(rq.authorization) :
        LET authHeader == rq.authorization[n]
            authHeaderParts == SplitSpaces(authHeader, << >>)
        IN  /\ authHeader # << >>
            /\ ~(Len(authHeaderParts) # 2
                    \/ [i \in 1..Len(authHeaderParts[1]) |->
                            ToLower(authHeaderParts[1][i])] # << "bearer" >>)
            /\ checkJWT(cfg, authHeaderParts[2])

\* lines 40-56: "Bearer <token>" with a token checkJWT accepts
BearerCheck(cfg, rq) ==
    LET authHeader == HeaderGet(rq.authorization)
        authHeaderParts == SplitSpaces(authHeader, << >>)
    IN  /\ authHeader # << >>
        /\ ~(Len(authHeaderParts) # 2
                \/ [i \in 1..Len(authHeaderParts[1]) |->
                        ToLower(authHeaderParts[1][i])] # << "bearer" >>)
        /\ checkJWT(cfg, authHeaderParts[2])

RealmHeader(cfg, w) ==
    IF cfg.BasicAuth.Active
    THEN SetHeader(w, "WWW-Authenticate", "Basic realm=\"Restricted\"")
    ELSE w

Deny(cfg, w, checked) ==
    [w |-> HttpError(RealmHeader(cfg, w), "Not authorized", StatusUnauthorized),
     next |-> FALSE, checked |-> checked]

\* auth without the return statements after http.Error: the wrapped handler
\* runs after a denial
auth_NoReturn(cfg, rq, w) ==
    IF cfg.BasicAuth.Active /\ ~BasicCheck(cfg, rq)
    THEN [Deny(cfg, w, {"basic"}) EXCEPT !.next = TRUE]
    ELSE IF cfg.BearerAuth.Active /\ ~BearerCheck(cfg, rq)
    THEN [Deny(cfg, w, {"bearer"}) EXCEPT !.next = TRUE]
    ELSE [w |-> RealmHeader(cfg, w), next |-> TRUE, checked |-> {}]

\* auth letting a request through when one of two active schemes accepts
auth_EitherScheme(cfg, rq, w) ==
    LET basic == cfg.BasicAuth.Active /\ BasicCheck(cfg, rq)
        bearer == cfg.BearerAuth.Active /\ BearerCheck(cfg, rq)
        active == (IF cfg.BasicAuth.Active THEN {"basic"} ELSE {})
                    \cup (IF cfg.BearerAuth.Active THEN {"bearer"} ELSE {})
    IN  IF active # {} /\ ~basic /\ ~bearer
        THEN Deny(cfg, w, active)
        ELSE [w |-> RealmHeader(cfg, w), next |-> TRUE, checked |-> active]

\* auth checking the bearer token whether or not the scheme is active
auth_AlwaysBearer(cfg, rq, w) ==
    IF cfg.BasicAuth.Active /\ ~BasicCheck(cfg, rq)
    THEN Deny(cfg, w, {"basic"})
    ELSE IF ~BearerCheck(cfg, rq)
    THEN Deny(cfg, w, (IF cfg.BasicAuth.Active THEN {"basic"} ELSE {})
                        \cup {"bearer"})
    ELSE [w |-> RealmHeader(cfg, w), next |-> TRUE,
          checked |-> (IF cfg.BasicAuth.Active THEN {"basic"} ELSE {})
                        \cup {"bearer"}]

\* auth telling a bad token apart from bad credentials in its message
auth_TokenMessage(cfg, rq, w) ==
    IF cfg.BasicAuth.Active /\ ~BasicCheck(cfg, rq)
    THEN Deny(cfg, w, {"basic"})
    ELSE IF cfg.BearerAuth.Active /\ ~BearerCheck(cfg, rq)
    THEN [w |-> HttpError(RealmHeader(cfg, w),
                    IF HeaderGet(rq.authorization) = << >>
                    THEN "Not authorized" ELSE "Invalid token",
                    StatusUnauthorized),
          next |-> FALSE,
          checked |-> (IF cfg.BasicAuth.Active THEN {"basic"} ELSE {})
                        \cup {"bearer"}]
    ELSE [w |-> RealmHeader(cfg, w), next |-> TRUE,
          checked |-> (IF cfg.BasicAuth.Active THEN {"basic"} ELSE {})
                        \cup (IF cfg.BearerAuth.Active THEN {"bearer"} ELSE {})]

\* The gate's outcome for request rq and response writer w: the writer
\* after the gate, whether h.ServeHTTP is called (next), and the checks
\* that were evaluated.
auth(cfg, rq, w) ==
    IF cfg.BasicAuth.Active /\ ~BasicCheck(cfg, rq)
    THEN Deny(cfg, w, {"basic"})
    ELSE IF cfg.BearerAuth.Active /\ ~BearerCheck(cfg, rq)
    THEN Deny(cfg, w, (IF cfg.BasicAuth.Active THEN {"basic"} ELSE {})
                        \cup {"bearer"})
    ELSE [w |-> RealmHeader(cfg, w), next |-> TRUE,
          checked |-> (IF cfg.BasicAuth.Active THEN {"basic"} ELSE {})
                        \cup (IF cfg.BearerAuth.Active THEN {"bearer"} ELSE {})]


(***************************************************************************)
(* The script registry and the child process.                              *)
(***************************************************************************)
\* exporterConfig.GetScript(name): the command line registered under the
\* name, "" when there is none (pkg/config)
GetScript(cfg, name) ==
    IF name \in DOMAIN cfg.Scripts THEN cfg.Scripts[name] ELSE ""

NoChild == [state |-> "none", exit |-> "", stdout |-> << >>]

\* runScript's return values once exec.Command(...).Output() has returned:
\* on an error (the process did not start, or exited non-zero) the captured
\* output is discarded
runScript(child) ==
    IF child.exit # "ok" THEN [output |-> << >>, err |-> TRUE]
    ELSE [output |-> child.stdout, err |-> FALSE]

(***************************************************************************)
(* metricsHandler, in the two parts that the child process separates.      *)
(***************************************************************************)
\* ResolveScript without the return after "Script not found"
ResolveScript_NoReturn(cfg, rq, w) ==
    IF rq.script = ""
    THEN [w |-> HttpError(w, "Script parameter is missing", StatusBadRequest),
          run |-> FALSE, lookup |-> FALSE]
    ELSE LET w1 == SetHeader(w, "Content-Type", "text/plain") IN
         IF GetScript(cfg, rq.script) = ""
         THEN [w |-> HttpError(w1, "Script not found", StatusBadRequest),
               run |-> TRUE, lookup |-> TRUE]
         ELSE [w |-> w1, run |-> TRUE, lookup |-> TRUE]

\* ResolveScript without the check of the script parameter: the empty name
\* is looked up like any other
ResolveScript_NoMissingCheck(cfg, rq, w) ==
    LET w1 == SetHeader(w, "Content-Type", "text/plain") IN
    IF GetScript(cfg, rq.script) = ""
    THEN [w |-> HttpError(w1, "Script not found", StatusBadRequest),
          run |-> FALSE, lookup |-> TRUE]
    ELSE [w |-> w1, run |-> TRUE, lookup |-> TRUE]

\* lines 172-207: up to the registry lookup.  run: runScript is called.
ResolveScript(cfg, rq, w) ==
    IF rq.script = ""
    THEN [w |-> HttpError(w, "Script parameter is missing", StatusBadRequest),
          run |-> FALSE, lookup |-> FALSE]
    ELSE LET w1 == SetHeader(w, "Content-Type", "text/plain") IN
         IF GetScript(cfg, rq.script) = ""
         THEN [w |-> HttpError(w1, "Script not found", StatusBadRequest),
               run |-> FALSE, lookup |-> TRUE]
         ELSE [w |-> w1, run |-> TRUE, lookup |-> TRUE]

\* WriteProbe without the return after the failure lines: the handler goes
\* on to the output parameter and the transformer
WriteProbe_NoReturnOnError(rq, w, result, elapsed) ==
    LET w0 == IF result.err THEN WriteLines(w, SyntheticLines(0, elapsed))
              ELSE w
    IN  IF rq.output = "ignore"
        THEN [w |-> WriteLines(w0, SyntheticLines(1, elapsed)),
              transform |-> FALSE, panic |-> FALSE]
        ELSE LET formated ==
                     FormatedOutput(EffectivePrefix(rq.prefix), result.output)
             IN  IF formated.panic
                 THEN [w |-> w0, transform |-> TRUE, panic |-> TRUE]
                 ELSE [w |-> WriteLines(w0, SyntheticLines(1, elapsed)
                                            \o formated.out \o << << >> >>),
                       transform |-> TRUE, panic |-> FALSE]

\* WriteProbe comparing the output parameter with "true", as the comment
\* above that comparison has it
WriteProbe_IgnoreTrue(rq, w, result, elapsed) ==
    IF result.err
    THEN [w |-> WriteLines(w, SyntheticLines(0, elapsed)),
          transform |-> FALSE, panic |-> FALSE]
    ELSE IF rq.output = "true"
    THEN [w |-> WriteLines(w, SyntheticLines(1, elapsed)),
          transform |-> FALSE, panic |-> FALSE]
    ELSE LET formated == FormatedOutput(EffectivePrefix(rq.prefix), result.output)
         IN  IF formated.panic
             THEN [w |-> w, transform |-> TRUE, panic |-> TRUE]
             ELSE [w |-> WriteLines(w, SyntheticLines(1, elapsed)
                                        \o formated.out \o << << >> >>),
                   transform |-> TRUE, panic |-> FALSE]

\* WriteProbe reporting script_success 1 for a script that failed
WriteProbe_SuccessOne(rq, w, result, elapsed) ==
    IF result.err \/ rq.output = "ignore"
    THEN [w |-> WriteLines(w, SyntheticLines(1, elapsed)),
          transform |-> FALSE, panic |-> FALSE]
    ELSE LET formated == FormatedOutput(EffectivePrefix(rq.prefix), result.output)
         IN  IF formated.panic
             THEN [w |-> w, transform |-> TRUE, panic |-> TRUE]
             ELSE [w |-> WriteLines(w, SyntheticLines(1, elapsed)
                                        \o formated.out \o << << >> >>),
                   transform |-> TRUE, panic |-> FALSE]

\* lines 210-248: from runScript's return to the response.  transform: the
\* "Format output" part was entered; panic: it dereferenced a nil regexp,
\* before anything was written.
WriteProbe(rq, w, result, elapsed) ==
    IF result.err
    THEN [w |-> WriteLines(w, SyntheticLines(0, elapsed)),
          transform |-> FALSE, panic |-> FALSE]
    ELSE IF rq.output = "ignore"
    THEN [w |-> WriteLines(w, SyntheticLines(1, elapsed)),
          transform |-> FALSE, panic |-> FALSE]
    ELSE LET formated == FormatedOutput(EffectivePrefix(rq.prefix), result.output)
         IN  IF formated.panic
             THEN [w |-> w, transform |-> TRUE, panic |-> TRUE]
             ELSE [w |-> WriteLines(w, SyntheticLines(1, elapsed)
                                        \o formated.out \o << << >> >>),
                   transform |-> TRUE, panic |-> FALSE]

(***************************************************************************)
(* instrumentScript: the per-script metrics.                               *)
(***************************************************************************)
\* line 151: only a request with a script name is instrumented
Instrumented(rq) == rq.script # ""

\* the gauge set to one instead of incremented
GaugeInc_Set(g, sn) == [g EXCEPT ![sn] = 1]

\* g.With(labels).Inc()
GaugeInc(g, sn) == [g EXCEPT ![sn] = @ + 1]

\* g.With(labels).Dec()
GaugeDec(g, sn) == [g EXCEPT ![sn] = @ - 1]

\* the decrement as a plain statement after next.ServeHTTP: a panic skips it
DeferredDec_NotDeferred(g, sn, panicking) ==
    IF panicking THEN g ELSE GaugeDec(g, sn)

\* defer g.With(labels).Dec(): runs when the wrapper returns and when a
\* panic of the inner handler unwinds through it
DeferredDec(g, sn, panicking) == GaugeDec(g, sn)

\* the counter set to one instead of incremented
CounterInc_Set(c, sn) == [c EXCEPT ![sn] = 1]

\* cnt.With(labels).Inc() and obs.With(labels).Observe(...)
CounterInc(c, sn) == [c EXCEPT ![sn] = @ + 1]

(***************************************************************************)
(* Inputs: the requests clients send and the behaviours of the scripts.    *)
(***************************************************************************)
ScriptNames == {"ping", "nope"}

Registry == [ping |-> "/opt/probes/ping.sh -c 1"]

Request(script, prefix, output, authorization) ==
    [script |-> script, prefix |-> prefix, output |-> output,
     authorization |-> authorization]

NoRequest == Request("", << >>, "", << >>)

GoodBasic == << "Basic", " ", "YWRtaW46c2VjcmV0" >>
GoodBearer == << "Bearer", " ", "jwt.HS256.keyA" >>

\* Authorization values: well-formed and malformed, right and wrong
AuthValues ==
    { GoodBasic,
      << "basic", " ", "YWRtaW46c2VjcmV0" >>,
      << "Basic", " ", "YWRtaW46d3Jvbmc=" >>,
      << "Basic", " ", "cm9vdDpzZWNyZXQ=" >>,
      << "Basic", " ", "YWRtaW4=" >>,
      << "Basic", " ", "%%%" >>,
      << "Basic" >>,
      GoodBearer,
      << "BEARER", " ", "jwt.HS256.keyA" >>,
      << "Bearer", " ", "jwt.HS512.keyA" >>,
      << "Bearer", " ", "jwt.HS256.keyB" >>,
      << "Bearer", " ", "jwt.HS256.keyA.expired" >>,
      << "Bearer", " ", "jwt.RS256.keyA" >>,
      << "Bearer", " ", "jwt.none" >>,
      << "Bearer", " ", "garbage" >>,
      << "Bearer", " ", " ", "jwt.HS256.keyA" >>,
      << "Bearer" >>,
      << "Token", " ", "jwt.HS256.keyA" >> }

\* the Authorization values of a request: none, one, or both kinds in
\* either order
AuthLists ==
    {<< >>} \cup {<< v >> : v \in AuthValues}
        \cup {<< GoodBasic, GoodBearer >>, << GoodBearer, GoodBasic >>}

\* lines a script may print
MetricLine == << "m", "{", "}", " ", "1" >>

SampleLines ==
    { MetricLine,
      << "m", "{", "a", ",", "b", "}", " ", "1", ",", "5" >>,
      << " ", "m", "{", "}", "\t", "2", " " >>,
      << "m", "{", "}", " ", "x" >>,
      << "m", " ", "1" >>,
      << "m", "{", "}", "1" >>,
      << "#", " ", "T" >>,
      << " ", " " >>,
      << "m", "{", "}", " ", "1", "\r" >> }

\* the texts of at most n lines, each line ended by a newline
RECURSIVE Texts(_)
Texts(n) ==
    IF n = 0 THEN {<< >>}
    ELSE {<< >>} \cup
         {l \o << "\n" >> \o t : l \in SampleLines, t \in Texts(n - 1)}

Child(exit, stdout) == [state |-> "exited", exit |-> exit, stdout |-> stdout]

\* a wall-clock duration of the probe, in whole seconds
Durations == {0, 12}

\* the prefix parameter: absent, plain, and with characters that mean
\* something in a regular expression
Prefixes == {<< >>, << "p" >>, << "p", "+" >>, << "." >>, << "(" >>}


\* the requests and script behaviours of the concurrent specification
ConcRequests ==
    { Request("ping", << >>, "", << >>),
      Request("ping", << "(" >>, "", << GoodBasic >>),
      Request("nope", << >>, "ignore", << GoodBearer >>),
      Request("", << >>, "", << >>) }

ConcChildren ==
    { Child("ok", MetricLine \o << "\n" >>),
      Child("nonzero", MetricLine \o << "\n" >>) }

\* ... of the specification of the gate
GateRequests ==
    {Request("ping", << >>, "", a) : a \in AuthLists}
        \cup {Request("", << >>, "", << GoodBasic >>)}

\* ... of the specification of the tokens: the secrets of a configuration,
\* the tokens signed elsewhere, and the requests presenting a token
SigningKeys == {<< "keyA" >>, << "keyA", "\\0" >>, << "keyB" >>}

ForeignTokens == {"jwt.RS256.keyA", "jwt.none"}

BearerRequest(tok) == Request("ping", << >>, "", << << "Bearer", " ", tok >> >>)

TokenRequests(printed) ==
    {BearerRequest(tok) : tok \in printed}
        \cup {BearerRequest(tok) : tok \in ForeignTokens}
        \cup {Request("", << >>, "", << >>)}

\* ... of the specification of the handler and its transformer
TransformRequests ==
    {Request("ping", p, o, << >>) : p \in Prefixes, o \in {"", "ignore"}}
        \cup {Request("nope", << >>, "", << >>),
              Request("nope", << "p" >>, "ignore", << >>),
              Request("", << "p" >>, "ignore", << >>)}

TransformChildren ==
    {Child("nostart", << >>)}
        \cup {Child(e, t) : e \in {"ok", "nonzero"}, t \in Texts(MaxLines)}

(***************************************************************************)
(* State.                                                                  *)
(***************************************************************************)
VARIABLES
    exporterConfig, \* the loaded configuration, read-only while serving
    pc,             \* where each request is in the handler chain
    req,            \* the request being served
    w,              \* its response writer
    child,          \* the child process of the request
    sif,            \* scripts_requests_inflight, by script name
    sreqs,          \* scripts_requests_total, by script name
    sdur,           \* scripts_duration_seconds: observations, by script name
    hist,           \* per request, what happened to it so far
    issued          \* the tokens printed by runs with -create-token

vars == << exporterConfig, pc, req, w, child, sif, sreqs, sdur, hist, issued >>

NoHistory ==
    [incs |-> 0, decs |-> 0, checked |-> {}, entered |-> FALSE,
     lookup |-> FALSE, invokes |-> 0, transform |-> FALSE, events |-> << >>]

\* events: "wrapper entry" and "wrapper exit" of instrumentScript (gauge
\* incremented, gauge decremented), "gate" (auth has decided), "handler"
\* (metricsHandler entered), "response" (status and body written to w)

Config(basic, bearer) ==
    [BasicAuth |-> [Active |-> basic, Username |-> << "admin" >>,
                    Password |-> << "secret" >>],
     BearerAuth |-> [Active |-> bearer, SigningKey |-> << "keyA" >>],
     Scripts |-> Registry]

\* no request yet, every metric at zero
Idle ==
    /\ pc = [r \in Reqs |-> "idle"]
    /\ req = [r \in Reqs |-> NoRequest]
    /\ w = [r \in Reqs |-> NewResponse]
    /\ child = [r \in Reqs |-> NoChild]
    /\ sif = [s \in ScriptNames |-> 0]
    /\ sreqs = [s \in ScriptNames |-> 0]
    /\ sdur = [s \in ScriptNames |-> 0]
    /\ hist = [r \in Reqs |-> NoHistory]
    /\ issued = {}

\* after LoadConfig and setupMetrics, before the first request
Init ==
    /\ exporterConfig \in {Config(b, t) : b \in BOOLEAN, t \in BOOLEAN}
    /\ Idle

\* the gate around the wrapper instead of the wrapper around the gate:
\* use(setupMetrics(metricsHandler), auth)
NextHandler_GateFirst(h) ==
    CASE h = "server" -> "auth"
      [] h = "auth" -> "instrument"
      [] h = "instrument" -> "handler"

\* the handler each handler of the chain calls: the one registered for
\* /probe is setupMetrics(use(metricsHandler, auth)), that is
\* instrumentScript(..., auth(metricsHandler)) inside the promhttp wrappers
NextHandler(h) ==
    CASE h = "server" -> "instrument"
      [] h = "instrument" -> "auth"
      [] h = "auth" -> "handler"

(***************************************************************************)
(* Steps of one request r through                                          *)
(*   instrumentScript(sdur, sreqs, sif, auth(metricsHandler)).             *)
(***************************************************************************)
\* a client sends a request
Arrive(r, requests) ==
    /\ pc[r] = "idle"
    /\ \E rq \in requests : req' = [req EXCEPT ![r] = rq]
    /\ pc' = [pc EXCEPT ![r] = NextHandler("server")]
    /\ UNCHANGED << exporterConfig, issued, w, child, sif, sreqs, sdur, hist >>

\* instrumentScript, lines 150-164: up to the call of the next handler
InstrumentEnter(r) ==
    /\ pc[r] = "instrument"
    /\ IF Instrumented(req[r])
       THEN /\ sif' = GaugeInc(sif, req[r].script)
            /\ hist' = [hist EXCEPT ![r].incs =
                            @ + sif'[req[r].script] - sif[req[r].script],
                                    ![r].events = Append(@, "wrapper entry")]
       ELSE UNCHANGED << sif, hist >>
    /\ pc' = [pc EXCEPT ![r] = NextHandler("instrument")]
    /\ UNCHANGED << exporterConfig, issued, req, w, child, sreqs, sdur >>

\* auth, lines 21-60
Auth(r) ==
    /\ pc[r] = "auth"
    /\ LET a == auth(exporterConfig, req[r], w[r]) IN
       /\ w' = [w EXCEPT ![r] = a.w]
       /\ hist' = [hist EXCEPT ![r].checked = a.checked,
                               ![r].events =
                                   @ \o IF a.next THEN << "gate" >>
                                        ELSE << "gate", "response" >>]
       /\ pc' = [pc EXCEPT ![r] = IF a.next THEN NextHandler("auth")
                                 ELSE "return"]
    /\ UNCHANGED << exporterConfig, issued, req, child, sif, sreqs, sdur >>

\* metricsHandler, lines 172-209: up to the start of the child process
HandlerStart(r) ==
    /\ pc[r] = "handler"
    /\ LET res == ResolveScript(exporterConfig, req[r], w[r]) IN
       /\ w' = [w EXCEPT ![r] = res.w]
       /\ child' = [child EXCEPT ![r] =
                        IF res.run THEN [NoChild EXCEPT !.state = "running"]
                        ELSE @]
       /\ hist' = [hist EXCEPT ![r].entered = TRUE,
                               ![r].events =
                                   @ \o IF res.run THEN << "handler" >>
                                        ELSE << "handler", "response" >>,
                               ![r].lookup = res.lookup,
                               ![r].invokes = @ + (IF res.run THEN 1 ELSE 0)]
       /\ pc' = [pc EXCEPT ![r] = IF res.run THEN "wait" ELSE "return"]
    /\ UNCHANGED << exporterConfig, issued, req, sif, sreqs, sdur >>

\* the child process ends (or could not be started) and Output() returns
ChildExit(r, children) ==
    /\ pc[r] = "wait"
    /\ \E c \in children : child' = [child EXCEPT ![r] = c]
    /\ pc' = [pc EXCEPT ![r] = "respond"]
    /\ UNCHANGED << exporterConfig, issued, req, w, sif, sreqs, sdur, hist >>

\* the child process never ends: Output() never returns
ChildHang(r) ==
    /\ pc[r] = "wait"
    /\ child' = [child EXCEPT ![r].state = "hung"]
    /\ pc' = [pc EXCEPT ![r] = "hung"]
    /\ UNCHANGED << exporterConfig, issued, req, w, sif, sreqs, sdur, hist >>

\* metricsHandler, lines 209-248
HandlerFinish(r) ==
    /\ pc[r] = "respond"
    /\ \E elapsed \in Durations :
         LET res == WriteProbe(req[r], w[r], runScript(child[r]), elapsed) IN
         /\ w' = [w EXCEPT ![r] = res.w]
         /\ hist' = [hist EXCEPT ![r].transform = res.transform,
                                 ![r].events =
                                     @ \o IF res.panic THEN << >>
                                          ELSE << "response" >>]
         /\ pc' = [pc EXCEPT ![r] = IF res.panic THEN "unwind" ELSE "return"]
    /\ UNCHANGED << exporterConfig, issued, req, child, sif, sreqs, sdur >>

\* instrumentScript, line 166
InstrObserve(r) ==
    /\ pc[r] = "return"
    /\ Instrumented(req[r])
    /\ sdur' = CounterInc(sdur, req[r].script)
    /\ pc' = [pc EXCEPT ![r] = "count"]
    /\ UNCHANGED << exporterConfig, issued, req, w, child, sif, sreqs, hist >>

\* instrumentScript, line 167
InstrCount(r) ==
    /\ pc[r] = "count"
    /\ sreqs' = CounterInc(sreqs, req[r].script)
    /\ pc' = [pc EXCEPT ![r] = "defer"]
    /\ UNCHANGED << exporterConfig, issued, req, w, child, sif, sdur, hist >>

\* instrumentScript, line 163: the deferred call, on return and on a panic;
\* a panic goes on to net/http, which drops the connection
InstrRelease(r) ==
    /\ pc[r] \in {"defer", "unwind"}
    /\ Instrumented(req[r])
    /\ sif' = DeferredDec(sif, req[r].script, pc[r] = "unwind")
    /\ hist' = [hist EXCEPT ![r].decs =
                    @ + sif[req[r].script] - sif'[req[r].script],
                            ![r].events = Append(@, "wrapper exit")]
    /\ pc' = [pc EXCEPT ![r] = IF pc[r] = "unwind" THEN "aborted" ELSE "done"]
    /\ UNCHANGED << exporterConfig, issued, req, w, child, sreqs, sdur >>

\* instrumentScript, lines 157-158: the request without a script name
Passthrough(r) ==
    /\ pc[r] = "return"
    /\ ~Instrumented(req[r])
    /\ pc' = [pc EXCEPT ![r] = "done"]
    /\ UNCHANGED << exporterConfig, issued, req, w, child, sif, sreqs, sdur, hist >>

Step(r, requests, children) ==
    \/ Arrive(r, requests)
    \/ InstrumentEnter(r)
    \/ Auth(r)
    \/ HandlerStart(r)
    \/ ChildExit(r, children)
    \/ ChildHang(r)
    \/ HandlerFinish(r)
    \/ InstrObserve(r)
    \/ InstrCount(r)
    \/ InstrRelease(r)
    \/ Passthrough(r)

\* concurrent requests, one handling context each
Next == \E r \in Reqs : Step(r, ConcRequests, ConcChildren)

Spec == Init /\ [][Next]_vars

\* one request through the gate, over every Authorization value
NextGate == Step(1, GateRequests, ConcChildren)

SpecGate == Init /\ [][NextGate]_vars

\* one request through the handler, over every script output and prefix
NextTransform == Step(1, TransformRequests, TransformChildren)

SpecTransform == Init /\ [][NextTransform]_vars

\* main, lines 351-358: a run with -create-token, its configuration holding
\* the secret, prints a token and exits
CreateToken(secret) ==
    /\ issued' = issued \cup
            {[secret |-> secret,
              token |-> createJWT([Config(FALSE, TRUE) EXCEPT
                                      !.BearerAuth.SigningKey = secret])]}
    /\ UNCHANGED << exporterConfig, pc, req, w, child, sif, sreqs, sdur, hist >>

\* the server configured with any of the secrets
InitToken ==
    /\ exporterConfig \in
            {[Config(b, t) EXCEPT !.BearerAuth.SigningKey = k] :
                b \in BOOLEAN, t \in BOOLEAN, k \in SigningKeys}
    /\ Idle

\* one request presenting a token that was printed, or one made elsewhere
\* with a method that is not HMAC
NextToken ==
    \/ \E k \in SigningKeys : CreateToken(k)
    \/ Step(1, TokenRequests({t.token : t \in issued}), ConcChildren)

SpecToken == InitToken /\ [][NextToken]_vars

\* the steps of the goroutine that serves request r
Serve(r) ==
    \/ InstrumentEnter(r)
    \/ Auth(r)
    \/ HandlerStart(r)
    \/ HandlerFinish(r)
    \/ InstrObserve(r)
    \/ InstrCount(r)
    \/ InstrRelease(r)
    \/ Passthrough(r)

\* the child process of request r ends, or turns out to be one that never
\* ends
ChildEnds(r) == ChildExit(r, ConcChildren) \/ ChildHang(r)

\* the places of a request where its goroutine can run
Running(r) ==
    pc[r] \in {"instrument", "auth", "handler", "respond", "return", "count",
               "defer", "unwind"}

\* Serve(r) and ChildEnds(r) as they show on pc: a step is one of Serve(r)
\* exactly if it takes the request away from a place where it runs, and
\* one of ChildEnds(r) exactly if it takes it away from "wait"
\* (StepsOnPc below)
ServeOnPc(r) ==
    /\ Running(r)
    /\ \E p \in {"auth", "handler", "wait", "respond", "return", "unwind",
                 "count", "defer", "done", "aborted"} \ {pc[r]} :
         pc' = [pc EXCEPT ![r] = p]

ChildEndsOnPc(r) ==
    /\ pc[r] = "wait"
    /\ \E p \in {"respond", "hung"} : pc' = [pc EXCEPT ![r] = p]

\* net/http serves each connection in a goroutine of its own and the Go
\* scheduler is fair to each: no goroutine that can go on waits forever,
\* and a child process ends or is one that never ends
SpecLive ==
    /\ Spec
    /\ \A r \in Reqs : WF_pc(ServeOnPc(r)) /\ WF_pc(ChildEndsOnPc(r))

Completed(r) == pc[r] \in {"done", "aborted"}


(***************************************************************************)
(* Properties.                                                             *)
(***************************************************************************)
\* the request has been through the gate
PastGate(r) == pc[r] \notin {"idle", "instrument", "auth"}

\* the wrapped handler, metricsHandler, is or was running for the request
ReachedHandler(r) == pc[r] = "handler" \/ hist[r].entered

\* the credentials and the token a request presents, as the server reads
\* them from its first Authorization value
BasicAccepts(cfg, rq) ==
    /\ BasicAuth(rq).ok
    /\ BasicAuth(rq).username = cfg.BasicAuth.Username
    /\ BasicAuth(rq).password = cfg.BasicAuth.Password

BearerAccepts(cfg, rq) ==
    LET v == HeaderGet(rq.authorization) IN
    /\ Len(v) = 3
    /\ ToLower(v[1]) = "bearer"
    /\ v[2] = " "
    /\ checkJWT(cfg, << v[3] >>)

ActiveSchemesAccept(cfg, rq) ==
    /\ cfg.BasicAuth.Active => BasicAccepts(cfg, rq)
    /\ cfg.BearerAuth.Active => BearerAccepts(cfg, rq)

NotAuthorizedBody == << << "Not authorized" >> >>

\* C1: a request the gate denies never enters the probe handler and never
\* has a child process; it ends with the 401 response.
C1_DeniedNeverRuns ==
    \A r \in Reqs :
        (PastGate(r) /\ ~ActiveSchemesAccept(exporterConfig, req[r])) =>
            /\ ~ReachedHandler(r)
            /\ hist[r].invokes = 0
            /\ child[r] = NoChild
            /\ pc[r] \in {"return", "count", "defer", "done"}
            /\ w[r].status = StatusUnauthorized
            /\ w[r].body = NotAuthorizedBody

C1_Witness ==
    \E r \in Reqs :
        /\ pc[r] = "done"
        /\ exporterConfig.BearerAuth.Active
        /\ req[r].script = "ping"
        /\ req[r].authorization = << << "Bearer", " ", "jwt.HS256.keyB" >> >>
        /\ w[r].status = StatusUnauthorized

\* C2: the gate is a conjunction over the active schemes: a request reaches
\* the wrapped handler exactly when every active scheme accepts it, and is
\* answered 401 otherwise; with no scheme active every request reaches it.
C2_GateIsConjunction ==
    \A r \in Reqs :
        PastGate(r) =>
            /\ ReachedHandler(r) <=> ActiveSchemesAccept(exporterConfig, req[r])
            /\ ~ReachedHandler(r) <=> w[r].status = StatusUnauthorized
            /\ (~exporterConfig.BasicAuth.Active
                    /\ ~exporterConfig.BearerAuth.Active) => ReachedHandler(r)

\* both schemes active, valid Basic credentials, no token: denied
C2_Witness ==
    \E r \in Reqs :
        /\ exporterConfig.BasicAuth.Active
        /\ exporterConfig.BearerAuth.Active
        /\ req[r].authorization = << GoodBasic >>
        /\ pc[r] = "done"
        /\ w[r].status = StatusUnauthorized
        /\ ~hist[r].entered

\* C3: with only Basic active, a request without Basic credentials gets 401,
\* a request with the configured username and password reaches the handler,
\* and the Bearer check is not evaluated: the outcome is decided by the
\* Basic credentials alone.
C3_BasicOnly ==
    \A r \in Reqs :
        (/\ PastGate(r)
         /\ exporterConfig.BasicAuth.Active
         /\ ~exporterConfig.BearerAuth.Active) =>
            /\ ~BasicAuth(req[r]).ok =>
                    w[r].status = StatusUnauthorized /\ ~ReachedHandler(r)
            /\ (/\ BasicAuth(req[r]).ok
                /\ BasicAuth(req[r]).username = << "admin" >>
                /\ BasicAuth(req[r]).password = << "secret" >>) =>
                    ReachedHandler(r) /\ w[r].status # StatusUnauthorized
            /\ "bearer" \notin hist[r].checked
            /\ ReachedHandler(r) <=> BasicAccepts(exporterConfig, req[r])

\* correct Basic credentials together with a Bearer value: let through
C3_Witness ==
    \E r \in Reqs :
        /\ exporterConfig.BasicAuth.Active
        /\ ~exporterConfig.BearerAuth.Active
        /\ req[r].authorization = << GoodBasic, GoodBearer >>
        /\ hist[r].entered
        /\ hist[r].checked = {"basic"}

\* the one response of a denial under a configuration
DenialResponse(cfg) ==
    [status |-> StatusUnauthorized,
     headers |->
        {<< "Content-Type", "text/plain; charset=utf-8" >>,
         << "X-Content-Type-Options", "nosniff" >>}
        \cup (IF cfg.BasicAuth.Active
              THEN {<< "WWW-Authenticate", "Basic realm=\"Restricted\"" >>}
              ELSE {}),
     body |-> NotAuthorizedBody]

\* C4: under one configuration every denied request gets the same response,
\* status 401 with the body "Not authorized" and the same headers, whatever
\* check failed; any two denied requests have equal responses.
C4_UniformDenial ==
    /\ \A r \in Reqs :
        (PastGate(r) /\ ~ReachedHandler(r)) =>
            w[r] = DenialResponse(exporterConfig)
    /\ \A r1, r2 \in Reqs :
        (/\ PastGate(r1) /\ ~ReachedHandler(r1)
         /\ PastGate(r2) /\ ~ReachedHandler(r2)) => w[r1] = w[r2]

\* denied for a token signed with another key
C4_Witness ==
    \E r \in Reqs :
        /\ exporterConfig.BearerAuth.Active
        /\ ~exporterConfig.BasicAuth.Active
        /\ req[r].authorization = << << "Bearer", " ", "jwt.HS256.keyB" >> >>
        /\ pc[r] = "done"
        /\ w[r] = DenialResponse(exporterConfig)

\* C5: a request for a script name that is not in the registry, once in the
\* probe handler, is answered 400 "Script not found" and never has a child
\* process: a child process exists only after a successful lookup.
C5_UnknownScriptNeverRuns ==
    \A r \in Reqs :
        /\ (/\ hist[r].entered
            /\ req[r].script # ""
            /\ req[r].script \notin DOMAIN exporterConfig.Scripts) =>
                /\ w[r].status = StatusBadRequest
                /\ w[r].body = << << "Script not found" >> >>
                /\ hist[r].invokes = 0
                /\ child[r] = NoChild
        /\ (hist[r].invokes > 0 \/ child[r] # NoChild) =>
                /\ hist[r].lookup
                /\ req[r].script \in DOMAIN exporterConfig.Scripts

C5_Witness ==
    \E r \in Reqs :
        /\ pc[r] = "done"
        /\ req[r].script = "nope"
        /\ hist[r].entered
        /\ w[r].status = StatusBadRequest

\* the body is the six synthetic lines and nothing else, with this value of
\* script_success
OnlySyntheticLines(body, success) ==
    /\ Len(body) = 6
    /\ body[1] = scriptSuccessHelp
    /\ body[2] = scriptSuccessType
    /\ body[3] = << "script", "_success{} ", success >>
    /\ body[4] = scriptDurationSecondsHelp
    /\ body[5] = scriptDurationSecondsType
    /\ \E d \in {<< "0" >>, << "1", "2" >>} :
         body[6] = << "script", "_duration_seconds{} " >> \o d
                        \o << ".", "000000" >>

\* the handler has returned from the part after the child process
Responded(r) ==
    child[r].state = "exited" /\ pc[r] # "respond"

\* C6: when the process of a registered script fails to start or exits
\* non-zero, the response is 200 and its body is exactly the six synthetic
\* lines with script_success 0: none of the script's output, for every
\* output and prefix parameter.
C6_FailureBody ==
    \A r \in Reqs :
        (Responded(r) /\ child[r].exit # "ok") =>
            /\ w[r].status = StatusOK
            /\ OnlySyntheticLines(w[r].body, "0")
            /\ ~hist[r].transform
            /\ pc[r] # "unwind" /\ pc[r] # "aborted"

\* a script that printed a sample and then failed, probed with a prefix
\* that is no regular expression
C6_Witness ==
    \E r \in Reqs :
        /\ pc[r] = "done"
        /\ child[r].exit = "nonzero"
        /\ child[r].stdout = MetricLine \o << "\n" >>
        /\ req[r].prefix = << "(" >>
        /\ req[r].output = ""
        /\ w[r].status = StatusOK


ErrorBodies ==
    { NotAuthorizedBody,
      << << "Script not found" >> >>,
      << << "Script parameter is missing" >> >> }

\* C7 as stated: every request with output=ignore gets a response of the
\* synthetic lines only, and never enters the transformer.
C7_EveryIgnoreRequest ==
    \A r \in Reqs :
        (req[r].output = "ignore" /\ Completed(r)) =>
            /\ \E s \in {"0", "1"} : OnlySyntheticLines(w[r].body, s)
            /\ ~hist[r].transform

\* C7, amended: a request with output=ignore whose script was found and run
\* gets status 200 and exactly the six synthetic lines (script_success 1 when
\* the script succeeded, 0 when it failed); one that the gate denies, or
\* whose script name is missing or unknown, gets the 401 or 400 error text.
\* In no case is the transformer entered or a line of the script emitted.
C7_IgnoreOutput ==
    \A r \in Reqs :
        (req[r].output = "ignore" /\ pc[r] # "idle") =>
            /\ ~hist[r].transform
            /\ pc[r] \notin {"unwind", "aborted"}
            /\ Responded(r) =>
                /\ w[r].status = StatusOK
                /\ OnlySyntheticLines(w[r].body,
                        IF child[r].exit = "ok" THEN "1" ELSE "0")
            /\ (Completed(r) /\ ~Responded(r)) =>
                /\ w[r].status \in {StatusBadRequest, StatusUnauthorized}
                /\ w[r].body \in ErrorBodies

\* a script that printed a sample and succeeded, probed with output=ignore
\* and a prefix that is no regular expression
C7_Witness ==
    \E r \in Reqs :
        /\ pc[r] = "done"
        /\ req[r].output = "ignore"
        /\ req[r].prefix = << "(" >>
        /\ child[r].exit = "ok"
        /\ child[r].stdout = MetricLine \o << "\n" >>
        /\ OnlySyntheticLines(w[r].body, "1")

\* the requests for script s that have begun and have not completed
InFlightFor(s) ==
    {r \in Reqs : pc[r] # "idle" /\ req[r].script = s /\ ~Completed(r)}

\* C8: whenever all the requests for a script that have begun have
\* completed, under every interleaving of their steps, the in-flight gauge
\* of the script is back at its value before them (zero).
C8_GaugeReturns ==
    \A s \in ScriptNames : InFlightFor(s) = {} => sif[s] = 0

\* every request was a probe of the same script, and all have completed
C8_Witness ==
    /\ \A r \in Reqs : Completed(r) /\ req[r].script = "ping"
    /\ \E r \in Reqs : pc[r] = "aborted"
    /\ sif["ping"] = 0

\* C9: a request with a script name increments the gauge of that name once,
\* on entry, and decrements it once, on every way out of the wrapped handler
\* (probe answered, script failed, 400, 401, panic); a request without a
\* script name does neither.
C9_IncDecOnce ==
    \A r \in Reqs :
        /\ hist[r].incs <= 1 /\ hist[r].decs <= hist[r].incs
        /\ (Instrumented(req[r]) /\ pc[r] \notin {"idle", "instrument"}) =>
                hist[r].incs = 1
        /\ (Instrumented(req[r]) /\ Completed(r)) => hist[r].decs = 1
        /\ ~Instrumented(req[r]) => hist[r].incs = 0 /\ hist[r].decs = 0

\* one request ended by a panic of the handler, another by the gate's 401
C9_Witness ==
    \E r1, r2 \in Reqs :
        /\ pc[r1] = "aborted" /\ hist[r1].decs = 1
        /\ pc[r2] = "done" /\ w[r2].status = StatusUnauthorized
        /\ Instrumented(req[r2]) /\ hist[r2].decs = 1

\* a line of script output that is a sample line (not blank, no directive)
\* but lacks a label set in braces or a numeric value
HasLabelSet(m) ==
    \E i, j \in 1..Len(m) : i < j /\ m[i] = "{" /\ m[j] = "}"

\* the value: what follows the last white space of the line
ValueOf(m) ==
    IF \E i \in 1..Len(m) : m[i] \in SpaceChars
    THEN LET i == SetMax({k \in 1..Len(m) : m[k] \in SpaceChars})
         IN  SubSeq(m, i + 1, Len(m))
    ELSE << >>

\* digits with a decimal point or a decimal comma
NumericLiteral(v) ==
    v # << >> /\ \A i \in 1..Len(v) : v[i] \in Digits \cup {".", ","}

Malformed(line) ==
    LET m == Trim(line) IN
    /\ m # << >>
    /\ m[1] # "#"
    /\ ~HasLabelSet(m) \/ ~NumericLiteral(ValueOf(m))

\* C10: each malformed sample line of the script's output produces no line
\* of the response, so that the transformer emits fewer lines than it read
\* whenever one is present.
C10_MalformedDropped ==
    \A r \in Reqs :
        (Responded(r) /\ hist[r].transform /\ w[r].status = StatusOK) =>
            LET lines == ScanLines(child[r].stdout, << >>)
                emitted == Len(w[r].body) - 7
                malformed == {i \in 1..Len(lines) : Malformed(lines[i])}
            IN  /\ emitted + Cardinality(malformed) <= Len(lines)
                /\ malformed # {} => emitted < Len(lines)

\* the lines of the response after the six synthetic lines, without the
\* empty line that ends the body
Emitted(r) == SubSeq(w[r].body, 7, Len(w[r].body) - 1)

\* name{labels} value: a name of word characters, a label set in braces,
\* white space, and a value of digits with a decimal point or comma
WellFormed(line) ==
    LET m == Trim(line)
        v == ValueOf(m)
    IN  /\ NumericLiteral(v)
        /\ \E i, j \in 1..Len(m) :
             /\ 1 < i /\ i < j
             /\ \A k \in 1..(i - 1) : m[k] \in WordChars
             /\ m[i] = "{" /\ m[j] = "}"
             /\ \A k \in (j + 1)..(Len(m) - Len(v)) : m[k] \in SpaceChars

\* the line as it is to be emitted for the prefix parameter p
Expected(p, line) ==
    LET m == Trim(line)
        v == ValueOf(m)
    IN  EffectivePrefix(p) \o SubSeq(m, 1, Len(m) - Len(v))
            \o [i \in 1..Len(v) |-> IF v[i] = "," THEN "." ELSE v[i]]

\* the request was answered from the output of a script that succeeded
Transformed(r) ==
    Responded(r) /\ child[r].exit = "ok" /\ req[r].output # "ignore"

\* C11: for every prefix parameter, each well-formed sample line the script
\* printed is in the response as the effective prefix followed by the line,
\* the commas of its value replaced by points and those of its label set
\* left alone.
C11_PrefixedExactly ==
    \A r \in Reqs :
        Transformed(r) =>
            LET lines == ScanLines(child[r].stdout, << >>) IN
            \A i \in 1..Len(lines) :
                WellFormed(lines[i]) =>
                    /\ pc[r] \notin {"unwind", "aborted"}
                    /\ \E k \in 1..Len(Emitted(r)) :
                         Emitted(r)[k] = Expected(req[r].prefix, lines[i])

\* the same for the prefixes made of word characters only
C11_WordPrefix ==
    \A r \in Reqs :
        (Transformed(r)
            /\ \A i \in 1..Len(req[r].prefix) : req[r].prefix[i] \in WordChars)
        =>  LET lines == ScanLines(child[r].stdout, << >>) IN
            \A i \in 1..Len(lines) :
                WellFormed(lines[i]) =>
                    /\ pc[r] \notin {"unwind", "aborted"}
                    /\ \E k \in 1..Len(Emitted(r)) :
                         Emitted(r)[k] = Expected(req[r].prefix, lines[i])

\* a line of script output that begins with '#' once trimmed
Directive(line) == Trim(line) # << >> /\ Trim(line)[1] = "#"

\* C12: for every prefix parameter, each line of the script's output that
\* begins with '#' after trimming is in the response as it was printed
\* (trimmed), without the prefix.
C12_DirectivesPassThrough ==
    \A r \in Reqs :
        Transformed(r) =>
            LET lines == ScanLines(child[r].stdout, << >>) IN
            \A i \in 1..Len(lines) :
                Directive(lines[i]) =>
                    /\ pc[r] \notin {"unwind", "aborted"}
                    /\ \E k \in 1..Len(Emitted(r)) :
                         Emitted(r)[k] = Trim(lines[i])

\* the same for the requests whose handler did not panic
C12_UnlessPanic ==
    \A r \in Reqs :
        (Transformed(r) /\ pc[r] \notin {"unwind", "aborted"}) =>
            LET lines == ScanLines(child[r].stdout, << >>) IN
            \A i \in 1..Len(lines) :
                Directive(lines[i]) =>
                    \E k \in 1..Len(Emitted(r)) :
                        Emitted(r)[k] = Trim(lines[i])

\* the token a request presents
PresentedToken(r) ==
    IF /\ Len(req[r].authorization) = 1
       /\ Len(req[r].authorization[1]) = 3
       /\ req[r].authorization[1][1] = "Bearer"
    THEN req[r].authorization[1][3]
    ELSE ""

Denied(r) == ~ReachedHandler(r) /\ w[r].status = StatusUnauthorized

\* C13 as stated: a token printed by a run with the secret S passes the
\* gate of a server whose secret is S and is denied by a server with any
\* other secret; a token of a method that is not HMAC is always denied.
C13_AnyOtherSecret ==
    \A r \in Reqs :
        (PastGate(r) /\ exporterConfig.BearerAuth.Active) =>
            /\ \A t \in issued :
                 t.token = PresentedToken(r) =>
                    IF t.secret = exporterConfig.BearerAuth.SigningKey
                    THEN exporterConfig.BasicAuth.Active \/ ReachedHandler(r)
                    ELSE Denied(r)
            /\ PresentedToken(r) \in ForeignTokens => Denied(r)

\* C13: a token printed by a run with the secret S passes the gate of a
\* server whose secret is S, or differs from S only by zero bytes at its
\* end, and is denied by a server with any other secret; a token of a method
\* that is not HMAC is denied whatever the secret.
C13_TokenRoundTrip ==
    \A r \in Reqs :
        (PastGate(r) /\ exporterConfig.BearerAuth.Active) =>
            /\ \A t \in issued :
                 t.token = PresentedToken(r) =>
                    IF HMACKey(t.secret) =
                            HMACKey(exporterConfig.BearerAuth.SigningKey)
                    THEN exporterConfig.BasicAuth.Active \/ ReachedHandler(r)
                    ELSE Denied(r)
            /\ PresentedToken(r) \in ForeignTokens => Denied(r)

\* a printed token got through the gate of a server with the same secret,
\* after a token was printed for another secret too
C13_Witness ==
    \E r \in Reqs, t, u \in issued :
        /\ t.secret = exporterConfig.BearerAuth.SigningKey
        /\ u.token # t.token
        /\ exporterConfig.BearerAuth.Active
        /\ PresentedToken(r) = t.token
        /\ ReachedHandler(r) /\ Completed(r)

\* the body begins with the six synthetic lines, success being the value of
\* script_success
HasSyntheticLines(body, success) ==
    Len(body) >= 6 /\ OnlySyntheticLines(SubSeq(body, 1, 6), success)

\* C14 as stated: every response, whatever its outcome, holds a
\* script_success line and a script_duration_seconds line, script_success
\* being 0 when the script was not resolved or its execution failed and 1
\* otherwise.
C14_EveryResponse ==
    \A r \in Reqs :
        w[r].status # 0 =>
            HasSyntheticLines(w[r].body,
                IF Responded(r) /\ child[r].exit = "ok" THEN "1" ELSE "0")

\* C14: every response with status 200 is that of a script that was found
\* and run, and its body begins with the synthetic lines, script_success
\* being 0 when the execution failed and 1 otherwise; every other response
\* is a 400 or a 401 whose body is the error text alone, without a
\* script_success or script_duration_seconds line.
C14_ProbeGrammar ==
    \A r \in Reqs :
        w[r].status # 0 =>
            IF w[r].status = StatusOK
            THEN /\ Responded(r)
                 /\ HasSyntheticLines(w[r].body,
                        IF child[r].exit = "ok" THEN "1" ELSE "0")
            ELSE /\ w[r].status \in {StatusBadRequest, StatusUnauthorized}
                 /\ ~Responded(r)
                 /\ w[r].body \in ErrorBodies
                 /\ \A s \in {"0", "1"} : ~HasSyntheticLines(w[r].body, s)

\* a script that failed, answered with script_success 0 and a duration
C14_Witness ==
    \E r \in Reqs :
        /\ pc[r] = "done"
        /\ w[r].status = StatusOK
        /\ child[r].exit = "nonzero"
        /\ HasSyntheticLines(w[r].body, "0")

IsPrefix(s, t) == Len(s) <= Len(t) /\ s = SubSeq(t, 1, Len(s))

\* C15 as stated: the gate comes first; the gauge of a request is
\* incremented only after the gate has allowed it, and the events come in
\* the order gate, wrapper entry, handler, wrapper exit, response.
C15_GateBeforeWrapper ==
    \A r \in Reqs :
        /\ hist[r].incs > 0 => PastGate(r) /\ ReachedHandler(r)
        /\ \E order \in {<< "gate", "response" >>,
                         << "gate", "handler", "response" >>,
                         << "gate", "wrapper entry", "handler",
                            "wrapper exit", "response" >>} :
             IsPrefix(hist[r].events, order)

\* C15: the wrapper starts before the gate is evaluated.  The gauge of a
\* request with a script name is incremented before the gate decides, also
\* when the gate then denies the request, and the events come in the order
\* wrapper entry, gate, handler, response written, wrapper exit (without
\* the handler when the gate denies, without the response when the handler
\* panics); a request without a script name has no wrapper events.
C15_WrapperBeforeGate ==
    \A r \in Reqs :
        /\ (Instrumented(req[r]) /\ pc[r] \notin {"idle", "instrument"}) =>
                hist[r].incs = 1 /\ hist[r].events[1] = "wrapper entry"
        /\ pc[r] = "auth" => hist[r].checked = {} /\ w[r].status = 0
        /\ \E order \in
                IF Instrumented(req[r])
                THEN {<< "wrapper entry", "gate", "response", "wrapper exit" >>,
                      << "wrapper entry", "gate", "handler", "response",
                         "wrapper exit" >>,
                      << "wrapper entry", "gate", "handler", "wrapper exit" >>}
                ELSE {<< "gate", "response" >>,
                      << "gate", "handler", "response" >>} :
             IsPrefix(hist[r].events, order)

\* a request the gate denied: the wrapper had started before, and ended
\* after the 401 was written
C15_Witness ==
    \E r \in Reqs :
        /\ hist[r].events =
                << "wrapper entry", "gate", "response", "wrapper exit" >>
        /\ w[r].status = StatusUnauthorized
        /\ hist[r].incs = 1 /\ hist[r].decs = 1

\* the requests for script s whose wrapped handler has returned, up to and
\* past the given place of the wrapper
ReturnedFor(s, places) ==
    {r \in Reqs : req[r].script = s /\ pc[r] \in places}

\* C16: the per-script counter and the per-script observations are kept by
\* script name alone, outside the gate.  At every moment, under every
\* interleaving, the observations of a script are as many as its requests
\* whose wrapped handler has returned and that have passed line 166, and its
\* counter as many as those that have passed line 167, whatever each was
\* answered (200, 400, 401): each such request counts once, and N of them
\* make the counter grow by N.
C16_CountedOnce ==
    \A s \in ScriptNames :
        /\ sdur[s] = Cardinality(ReturnedFor(s, {"count", "defer", "done"}))
        /\ sreqs[s] = Cardinality(ReturnedFor(s, {"defer", "done"}))

\* every request was for the same script and is over, one denied by the
\* gate and one answered by the handler: each was counted
C16_Witness ==
    /\ \A r \in Reqs : pc[r] = "done" /\ req[r].script = "ping"
    /\ \E r \in Reqs : w[r].status = StatusUnauthorized
    /\ \E r \in Reqs : w[r].status = StatusOK
    /\ sreqs["ping"] = NumReqs /\ sdur["ping"] = NumReqs

\* what holds of a request without a script name at every moment
BypassState(r) ==
    /\ hist[r].incs = 0 /\ hist[r].decs = 0
    /\ ~hist[r].lookup /\ hist[r].invokes = 0
    /\ child[r] = NoChild
    /\ "wrapper entry" \notin {hist[r].events[i] :
                                   i \in 1..Len(hist[r].events)}
    /\ hist[r].entered =>
            /\ w[r].status = StatusBadRequest
            /\ w[r].body = << << "Script parameter is missing" >> >>
            /\ pc[r] \in {"return", "done"}

\* a step of a request without a script name leaves every per-script
\* series as it was
BypassStep(r) ==
    (pc'[r] # pc[r] /\ ~Instrumented(req'[r])) =>
        UNCHANGED << sif, sreqs, sdur >>

\* C17: a request with an empty script parameter changes no per-script
\* gauge, counter or duration series at any of its steps, goes on to the
\* wrapped handler, and, once in the probe handler, is answered 400 "Script
\* parameter is missing" with no lookup in the registry and no process.
C17_Bypass ==
    /\ [](\A r \in Reqs : ~Instrumented(req[r]) => BypassState(r))
    /\ [][\A r \in Reqs : BypassStep(r)]_vars

\* a request without a script name went through the handler chain, beside
\* a request with one
C17_Witness ==
    \E r, q \in Reqs :
        /\ ~Instrumented(req[r]) /\ pc[r] = "done" /\ hist[r].entered
        /\ w[r].status = StatusBadRequest
        /\ Instrumented(req[q]) /\ sif[req[q].script] = 1

\* what the transformer emits for a script that printed the one line
Image(prefix, line) ==
    FormatedOutput(EffectivePrefix(prefix), line \o << "\n" >>).out

\* the images of the lines, one after the other
RECURSIVE Images(_, _)
Images(prefix, lines) ==
    IF lines = << >> THEN << >>
    ELSE Image(prefix, Head(lines)) \o Images(prefix, Tail(lines))

StepsOnPc ==
    [][\A r \in Reqs : /\ ServeOnPc(r) <=> Serve(r)
                       /\ ChildEndsOnPc(r) <=> ChildEnds(r)]_vars

\* the handling of every request that has arrived comes to an end, with or
\* without a response, unless its child process never ends
EventuallyOver ==
    \A r \in Reqs : (pc[r] # "idle") ~> (Completed(r) \/ pc[r] = "hung")

\* a request whose child process has ended and whose handler did not panic
\* gets its response, whatever the other requests do
EventuallyAnswered ==
    \A r \in Reqs :
        (child[r].state = "exited") ~>
            (pc[r] = "aborted" \/ (pc[r] = "done" /\ w[r].status = StatusOK))

\* a request whose child process never ends stays where it is, without a
\* response and with its increment of the gauge standing
HungForever ==
    \A r \in Reqs :
        [](pc[r] = "hung" =>
            [](/\ pc[r] = "hung"
               /\ w[r].status = 0
               /\ hist[r].incs = 1 /\ hist[r].decs = 0
               /\ sif[req[r].script] >= 1))

\* C19, as the result it promises at the end of a request: once the child
\* process of a request has ended and the handling of the request is over,
\* the request has its response, whatever the other requests do; a request
\* whose child process never ends has no response and its increment of the
\* in-flight gauge stands.
C19_TerminatedAnswered ==
    \A r \in Reqs :
        /\ (child[r].state = "exited" /\ Completed(r)) =>
                w[r].status = StatusOK
        /\ pc[r] = "hung" =>
                /\ w[r].status = 0
                /\ hist[r].incs = 1 /\ hist[r].decs = 0
                /\ sif[req[r].script] >= 1

\* C20: in a configuration with Basic and Bearer both active, every request
\* is denied with 401 "Not authorized", whatever Authorization values it
\* carries; the handler is never entered and no script is looked up or run.
C20_BothActiveDenyAll ==
    \A r \in Reqs :
        (/\ exporterConfig.BasicAuth.Active
         /\ exporterConfig.BearerAuth.Active
         /\ PastGate(r)) =>
            /\ pc[r] \in {"return", "count", "defer", "done"}
            /\ w[r].status = StatusUnauthorized
            /\ w[r].body = NotAuthorizedBody
            /\ ~hist[r].entered /\ ~hist[r].lookup /\ hist[r].invokes = 0
            /\ child[r] = NoChild
            /\ ~(BasicAccepts(exporterConfig, req[r])
                    /\ BearerAccepts(exporterConfig, req[r]))

\* both schemes active and a request carrying the right credentials and
\* the right token, in two Authorization values: denied
C20_Witness ==
    \E r \in Reqs :
        /\ exporterConfig.BasicAuth.Active
        /\ exporterConfig.BearerAuth.Active
        /\ req[r].authorization = << GoodBasic, GoodBearer >>
        /\ pc[r] = "done"
        /\ w[r].status = StatusUnauthorized


=============================================================================
